---- MODULE Spec2Model ----
(***************************************************************************)
(* ctracker: an address-ordered registry of live heap allocations, fed by  *)
(* the replaced global operator new / operator delete, with three metrics  *)
(* (TotalAllocated, FragmentationIndex, FindLargestFreeBlock).             *)
(*                                                                         *)
(* The repository holds two variants of the registry:                      *)
(*   ctracker.hpp  a singly linked list of malloc'ed AllocationRecord      *)
(*                 nodes (RecordsHead / RecordsTail); the tests include it *)
(*   ctracker.cpp  a fixed array Records[MAX_RECORDS] with RecordCount     *)
(* The variable build says which of the two translation units is compiled. *)
(* Definitions without suffix model ctracker.hpp, those ending in _cpp     *)
(* model ctracker.cpp.                                                     *)
(***************************************************************************)
EXTENDS Integers, Sequences, FiniteSets

VARIABLES
    build,         \* "hpp" or "cpp": the translation unit that is compiled
    heap,          \* hpp: the AllocationRecord nodes obtained from std::malloc
    RecordsHead,   \* AllocationRecord *RecordsHead
    RecordsTail,   \* AllocationRecord *RecordsTail
    RecordCount,   \* size_t RecordCount
    Records,       \* cpp: AllocationRecord Records[MAX_RECORDS]
    mutex_,        \* std::mutex mutex_: the thread holding it, or NoThread
    lock_tracker,  \* thread_local bool lock_tracker, one per thread
    pc,            \* per thread: where it stands inside operator new / delete
    ptr,           \* per thread: the local ptr of the operator it is in
    size,          \* per thread: the size argument of the operator new it is in
    live,          \* external allocator: user blocks malloc'ed and not yet freed
    owned,         \* addresses operator new returned and no operator delete was given yet
    node,          \* per thread: newRecord of the CmallocTrack it is in
    outer,         \* per thread: the operator call suspended under a re-entrant call
    nReentered,    \* re-entrant calls made so far
    tracked,       \* history: per address, what its operator new did with it
    scenT,         \* history: progress through the two concurrent allocations
    sent,          \* history: per address, the CmallocTrack calls not since freed
    nSkipped,      \* history: CmallocTrack calls that stored nothing
    scen,          \* history: progress through the 100/200/300 scenario
    shadow         \* history: the registry as it would be without one
                   \* CmallocTrack(a) / CfreeTrack(a) pair

vars == <<build, heap, RecordsHead, RecordsTail, RecordCount, Records, mutex_,
          lock_tracker, pc, ptr, size, live, owned, node, outer,
          nReentered, tracked, scenT, sent, nSkipped, scen, shadow>>

regVars == <<heap, RecordsHead, RecordsTail, RecordCount, Records>>
threadVars == <<mutex_, lock_tracker, pc, ptr, size, live, owned, node, outer,
                nReentered, tracked, scenT>>
histVars == <<sent, nSkipped, scen, shadow>>

----------------------------------------------------------------------------
(* Bounds of the model *)

\* AllocationRecord nodes std::malloc can hand out before it returns null
NumNodes == 3
\* slots of Records[] (the source has 10000)
MAX_RECORDS == 3
\* CmallocTrack calls of one behaviour that store nothing
MaxSkipped == 1
\* threads calling operator new / operator delete
NumThreads == 2
\* re-entrant calls of operator new / operator delete in one behaviour
MaxReentered == 1

----------------------------------------------------------------------------
(* Machine integers and pointers *)

\* size_t and uintptr_t, narrowed from 64 to 30 bits so that every sum of two
\* words stays inside TLC's integers; arithmetic on them is modulo WordMod
WordMod == 2^30

Wrap(n) == n % WordMod

NULL == 0

\* an address far from the others, as a heap far from an mmap'ed region is
FarAddr == 2^29

\* the addresses and sizes CmallocTrack / CfreeTrack are called with
Addrs == {100, 105, 200, 300, FarAddr}
Sizes == {0, 10}

\* the addresses the external allocator hands out under SpecThreads
HeapAddrs == {100, 200}

\* the sizes operator new is called with under SpecThreads
NewSizes == {10}

NodeIds == 1..NumNodes
Threads == 1..NumThreads
NoThread == 0

\* no operator call is suspended
NoFrame == [pc |-> "none", ptr |-> NULL, size |-> 0]

\* what is known of an address no operator new has handled
Untracked == [how |-> "none", size |-> 0]

ScenTOff == [on |-> FALSE, called |-> {}]

Max(a, b) == IF a >= b THEN a ELSE b

----------------------------------------------------------------------------
(* ctracker.hpp: the linked-list registry *)

\* a node not handed out by std::malloc (its bytes are never read)
FreeNode == [used |-> FALSE, ptr |-> NULL, size |-> 0, next |-> NULL]

\* the registry as one value: the nodes, RecordsHead and RecordsTail
Reg == [heap |-> heap, head |-> RecordsHead, tail |-> RecordsTail]

\* std::malloc(sizeof(AllocationRecord)): null, or a node not in use. The nodes
\* are interchangeable, so the lowest free one stands for any of them.
MallocRecord(hp) ==
    LET free == {n \in NodeIds : ~hp[n].used}
    IN  {NULL} \cup (IF free = {} THEN {}
                     ELSE {CHOOSE n \in free : \A m \in free : n <= m})

\* InsertionPoint with the walk left out: the new record always follows the head
InsertionPointNoWalk(hp, current, addr) == current

\* the walk of CmallocTrack's else branch: the last node whose successor is
\* absent or holds an address >= addr
RECURSIVE InsertionPoint(_, _, _)
InsertionPoint(hp, current, addr) ==
    IF hp[current].next # NULL /\ hp[hp[current].next].ptr < addr
    THEN InsertionPoint(hp, hp[current].next, addr)
    ELSE current

\* CmallocTrack without "if (!newRecord->next) RecordsTail = newRecord"
CmallocTrackKeepTail(reg, newRecord, p, sz) ==
    IF newRecord = NULL THEN reg
    ELSE
      LET h1 == [reg.heap EXCEPT ![newRecord] =
                    [used |-> TRUE, ptr |-> p, size |-> sz, next |-> NULL]]
      IN  IF reg.head = NULL \/ h1[reg.head].ptr > p
          THEN [heap |-> [h1 EXCEPT ![newRecord].next = reg.head],
                head |-> newRecord,
                tail |-> IF reg.tail = NULL THEN newRecord ELSE reg.tail]
          ELSE
            LET current == InsertionPoint(h1, reg.head, p)
                nxt == h1[current].next
            IN  [heap |-> [h1 EXCEPT ![newRecord].next = nxt,
                                     ![current].next = newRecord],
                 head |-> reg.head,
                 tail |-> reg.tail]

\* CmallocTrack(ptr, size) with newRecord the result of its std::malloc
CmallocTrack(reg, newRecord, p, sz) ==
    IF newRecord = NULL THEN reg
    ELSE
      LET h1 == [reg.heap EXCEPT ![newRecord] =
                    [used |-> TRUE, ptr |-> p, size |-> sz, next |-> NULL]]
      IN  IF reg.head = NULL \/ h1[reg.head].ptr > p
          THEN [heap |-> [h1 EXCEPT ![newRecord].next = reg.head],
                head |-> newRecord,
                tail |-> IF reg.tail = NULL THEN newRecord ELSE reg.tail]
          ELSE
            LET current == InsertionPoint(h1, reg.head, p)
                nxt == h1[current].next
            IN  [heap |-> [h1 EXCEPT ![newRecord].next = nxt,
                                     ![current].next = newRecord],
                 head |-> reg.head,
                 tail |-> IF nxt = NULL THEN newRecord ELSE reg.tail]

\* FreeWalk without "if (current == RecordsTail) RecordsTail = prev"
RECURSIVE FreeWalkKeepTail(_, _, _, _)
FreeWalkKeepTail(reg, current, prev, p) ==
    IF current = NULL THEN reg
    ELSE IF reg.heap[current].ptr = p
    THEN LET nxt == reg.heap[current].next
             h1 == IF prev # NULL
                   THEN [reg.heap EXCEPT ![prev].next = nxt]
                   ELSE reg.heap
         IN  [heap |-> [h1 EXCEPT ![current] = FreeNode],
              head |-> IF prev # NULL THEN reg.head ELSE nxt,
              tail |-> reg.tail]
    ELSE FreeWalkKeepTail(reg, reg.heap[current].next, current, p)

\* the loop of CfreeTrack from (current, prev)
RECURSIVE FreeWalk(_, _, _, _)
FreeWalk(reg, current, prev, p) ==
    IF current = NULL THEN reg
    ELSE IF reg.heap[current].ptr = p
    THEN LET nxt == reg.heap[current].next
             h1 == IF prev # NULL
                   THEN [reg.heap EXCEPT ![prev].next = nxt]
                   ELSE reg.heap
         IN  [heap |-> [h1 EXCEPT ![current] = FreeNode],
              head |-> IF prev # NULL THEN reg.head ELSE nxt,
              tail |-> IF current = reg.tail THEN prev ELSE reg.tail]
    ELSE FreeWalk(reg, reg.heap[current].next, current, p)

\* CfreeTrack stopping at the first record at or above ptr, as a search that
\* trusts the address order would, without comparing for equality
RECURSIVE FreeWalkAtLeast(_, _, _, _)
FreeWalkAtLeast(reg, current, prev, p) ==
    IF current = NULL THEN reg
    ELSE IF reg.heap[current].ptr >= p
    THEN LET nxt == reg.heap[current].next
             h1 == IF prev # NULL
                   THEN [reg.heap EXCEPT ![prev].next = nxt]
                   ELSE reg.heap
         IN  [heap |-> [h1 EXCEPT ![current] = FreeNode],
              head |-> IF prev # NULL THEN reg.head ELSE nxt,
              tail |-> IF current = reg.tail THEN prev ELSE reg.tail]
    ELSE FreeWalkAtLeast(reg, reg.heap[current].next, current, p)

CfreeTrackAtLeast(reg, p) == FreeWalkAtLeast(reg, reg.head, NULL, p)

\* CfreeTrack(ptr)
CfreeTrack(reg, p) == FreeWalk(reg, reg.head, NULL, p)

\* the records met from node n following next: what a full scan yields
RECURSIVE ScanFrom(_, _)
ScanFrom(hp, n) ==
    IF n = NULL THEN <<>>
    ELSE <<[ptr |-> hp[n].ptr, size |-> hp[n].size]>> \o ScanFrom(hp, hp[n].next)

Scan(reg) == ScanFrom(reg.heap, reg.head)

\* the loop of TotalAllocated / FragmentationIndex: active_bytes += size
RECURSIVE ActiveBytes(_, _, _)
ActiveBytes(hp, current, acc) ==
    IF current = NULL THEN acc
    ELSE ActiveBytes(hp, hp[current].next, Wrap(acc + hp[current].size))

\* TotalAllocated starting its sum at RecordsHead->next
TotalAllocatedSkipHead(reg) ==
    IF reg.head = NULL THEN 0
    ELSE ActiveBytes(reg.heap, reg.heap[reg.head].next, 0)

TotalAllocated(reg) == ActiveBytes(reg.heap, reg.head, 0)

\* GapWalk measuring from the start of the current record, not from its end
RECURSIVE GapWalkFromStart(_, _, _)
GapWalkFromStart(hp, current, largest_gap) ==
    IF current # NULL /\ hp[current].next # NULL
    THEN LET current_end == hp[current].ptr
             next_start == hp[hp[current].next].ptr
             gap == Wrap(next_start - current_end)
         IN  GapWalkFromStart(hp, hp[current].next,
                     IF next_start > current_end /\ gap > largest_gap
                     THEN gap ELSE largest_gap)
    ELSE largest_gap

\* the loop of FindLargestFreeBlock from current with largest_gap so far
RECURSIVE GapWalk(_, _, _)
GapWalk(hp, current, largest_gap) ==
    IF current # NULL /\ hp[current].next # NULL
    THEN LET current_end == Wrap(hp[current].ptr + hp[current].size)
             next_start == hp[hp[current].next].ptr
             gap == Wrap(next_start - current_end)
         IN  GapWalk(hp, hp[current].next,
                     IF next_start > current_end /\ gap > largest_gap
                     THEN gap ELSE largest_gap)
    ELSE largest_gap

\* FindLargestFreeBlock returning 0 also for two records
FindLargestFreeBlockNeedsThree(reg) ==
    IF reg.head = NULL \/ reg.heap[reg.head].next = reg.tail THEN 0
    ELSE GapWalk(reg.heap, reg.head, 0)

FindLargestFreeBlock(reg) ==
    IF reg.head = NULL THEN 0 ELSE GapWalk(reg.heap, reg.head, 0)

----------------------------------------------------------------------------
(* float: IEEE 754 binary32, round to nearest even.  A finite float is     *)
(* sgn * m * 2^e with 2^23 <= m < 2^24, or zero.  The exponent range is     *)
(* never left by the values a 30-bit word produces.                         *)

\* the significand of a float has 24 bits
MantBits == 24

FZero == [sgn |-> 0, m |-> 0, e |-> 0]
FOne == [sgn |-> 1, m |-> 2^(MantBits - 1), e |-> 1 - MantBits]

RECURSIVE BitLen(_)
BitLen(n) == IF n = 0 THEN 0 ELSE 1 + BitLen(n \div 2)

\* the positive float nearest to (n + f) * 2^e, where n > 0 is an integer and
\* 0 <= f < 1 with f > 0 exactly when sticky
RoundNE(n, sticky, e) ==
    LET nb == BitLen(n)
    IN  IF nb <= MantBits
        THEN [sgn |-> 1, m |-> n * 2^(MantBits - nb), e |-> e - (MantBits - nb)]
        ELSE LET k == nb - MantBits
                 q == n \div 2^k
                 rem == n % 2^k
                 half == 2^(k - 1)
                 up == rem > half \/ (rem = half /\ (sticky \/ q % 2 = 1))
                 m1 == IF up THEN q + 1 ELSE q
             IN  IF m1 = 2^MantBits
                 THEN [sgn |-> 1, m |-> 2^(MantBits - 1), e |-> e + k + 1]
                 ELSE [sgn |-> 1, m |-> m1, e |-> e + k]

\* static_cast<float>(n) of an unsigned word
U2F(n) == IF n = 0 THEN FZero ELSE RoundNE(n, FALSE, 0)

RECURSIVE LongDiv(_, _, _, _)
\* n more quotient bits of r / d (r < d), appended to acc
LongDiv(r, d, n, acc) ==
    IF n = 0 THEN [q |-> acc, r |-> r]
    ELSE LET r2 == 2 * r
         IN  IF r2 >= d THEN LongDiv(r2 - d, d, n - 1, 2 * acc + 1)
                        ELSE LongDiv(r2, d, n - 1, 2 * acc)

\* a / b in float, for a >= 0 and b > 0
FDiv(a, b) ==
    IF a.sgn = 0 THEN FZero
    ELSE LET d == LongDiv(a.m % b.m, b.m, MantBits + 1, a.m \div b.m)
         IN  RoundNE(d.q, d.r # 0, a.e - b.e - (MantBits + 1))

FNeg(x) == [x EXCEPT !.sgn = 0 - x.sgn]

\* 1.0f - q in float, for q >= 0
FSubOne(q) ==
    IF q.sgn = 0 THEN FOne
    ELSE IF q.e > 0
    THEN \* q >= 2^24: the difference is -(q - 1)
         FNeg(RoundNE(q.m * 2^q.e - 1, FALSE, 0))
    ELSE IF q.e >= 0 - MantBits
    THEN \* 1/2 <= q < 2^24: the difference is exact
         LET d == 2^(0 - q.e) - q.m
         IN  IF d = 0 THEN FZero
             ELSE IF d > 0 THEN RoundNE(d, FALSE, q.e)
             ELSE FNeg(RoundNE(0 - d, FALSE, q.e))
    ELSE \* q < 1/2: the difference lies in [1/2, 1], where floats are 2^-24 apart
         LET k == 0 - (q.e + MantBits)
         IN  IF k > MantBits THEN FOne
             ELSE LET i == q.m \div 2^k
                      rem == q.m % 2^k
                      half == 2^(k - 1)
                      x == 2^MantBits - i
                      n == IF rem < half THEN x
                           ELSE IF rem > half THEN x - 1
                           ELSE IF x % 2 = 0 THEN x ELSE x - 1
                  IN  IF n = 2^MantBits THEN FOne
                      ELSE [sgn |-> 1, m |-> n, e |-> 0 - MantBits]

\* x < y for floats
FLess(x, y) ==
    LET PosLess(a, b) == a.e < b.e \/ (a.e = b.e /\ a.m < b.m)
    IN  IF x.sgn # y.sgn THEN x.sgn < y.sgn
        ELSE IF x.sgn = 0 THEN FALSE
        ELSE IF x.sgn = 1 THEN PosLess(x, y)
        ELSE PosLess(y, x)

FragmentationIndex(reg) ==
    IF reg.head = NULL \/ reg.head = reg.tail THEN FZero
    ELSE LET start == reg.heap[reg.head].ptr
             end == Wrap(reg.heap[reg.tail].ptr + reg.heap[reg.tail].size)
             span == Wrap(end - start)
         IN  IF span = 0 THEN FZero
             ELSE LET active_bytes == ActiveBytes(reg.heap, reg.head, 0)
                  IN  FSubOne(FDiv(U2F(active_bytes), U2F(span)))

----------------------------------------------------------------------------
(* ctracker.cpp: the array registry *)

ZeroRecord == [ptr |-> NULL, size |-> 0]

Slots == 0..(MAX_RECORDS - 1)

\* The model keeps the slots Records[0 .. count-1]; a slot at or above count
\* holds a stale copy that CmallocTrack overwrites before anything reads it,
\* and is kept as the zero record the static array starts with.
ReadableSlots(arr, count) ==
    [i \in Slots |-> IF i < count THEN arr[i] ELSE ZeroRecord]

\* a test for room that always finds some
HasRoomAlways(count) == TRUE

\* if (RecordCount < CTrackerMetrics::MAX_RECORDS)
HasRoom(count) == count < MAX_RECORDS

\* InsertionSort that stores at slot i without shifting anything
InsertionSortNoShift(arr, i, p, sz) ==
    [arr EXCEPT ![i] = [ptr |-> p, size |-> sz]]

\* the while loop of CmallocTrack: shift up from slot i, then store at the slot
\* where it stops
RECURSIVE InsertionSort(_, _, _, _)
InsertionSort(arr, i, p, sz) ==
    IF i > 0 /\ arr[i - 1].ptr > p
    THEN InsertionSort([arr EXCEPT ![i] = arr[i - 1]], i - 1, p, sz)
    ELSE [arr EXCEPT ![i] = [ptr |-> p, size |-> sz]]

CmallocTrack_cpp(arr, count, p, sz) ==
    IF HasRoom(count)
    THEN [Records |-> InsertionSort(arr, count, p, sz), RecordCount |-> count + 1]
    ELSE [Records |-> arr, RecordCount |-> count]

\* ShiftDown that moves nothing
ShiftDownNothing(arr, j, count) == arr

\* the inner loop of CfreeTrack: Records[j] = Records[j + 1] up to count - 2
RECURSIVE ShiftDown(_, _, _)
ShiftDown(arr, j, count) ==
    IF j < count - 1
    THEN ShiftDown([arr EXCEPT ![j] = arr[j + 1]], j + 1, count)
    ELSE arr

\* the outer loop of CfreeTrack from slot i
RECURSIVE FreeScan(_, _, _, _)
FreeScan(arr, count, i, p) ==
    IF i >= count THEN [Records |-> arr, RecordCount |-> count]
    ELSE IF arr[i].ptr = p
    THEN [Records |-> ReadableSlots(ShiftDown(arr, i, count), count - 1),
          RecordCount |-> count - 1]
    ELSE FreeScan(arr, count, i + 1, p)

CfreeTrack_cpp(arr, count, p) == FreeScan(arr, count, 0, p)

\* the loop of TotalAllocated from slot i: active_bytes += Records[i].size
RECURSIVE ActiveBytes_cpp(_, _, _, _)
ActiveBytes_cpp(arr, count, i, acc) ==
    IF i < count
    THEN ActiveBytes_cpp(arr, count, i + 1, Wrap(acc + arr[i].size))
    ELSE acc

TotalAllocated_cpp(arr, count) == ActiveBytes_cpp(arr, count, 0, 0)

\* Records[0 .. count-1] in slot order
Scan_cpp(arr, count) == [i \in 1..count |-> arr[i - 1]]

\* the loop of FindLargestFreeBlock from slot i, for i + 1 < count
RECURSIVE GapLoop(_, _, _, _)
GapLoop(arr, count, i, largest_gap) ==
    IF i < count - 1
    THEN LET current_end == Wrap(arr[i].ptr + arr[i].size)
             next_start == arr[i + 1].ptr
             gap == Wrap(next_start - current_end)
         IN  GapLoop(arr, count, i + 1,
                     IF gap > largest_gap THEN gap ELSE largest_gap)
    ELSE largest_gap

\* The values FindLargestFreeBlock can return. With RecordCount = 0 the loop
\* bound RecordCount - 1 wraps to the largest word, the loop runs past slot
\* MAX_RECORDS - 1 and reads outside Records: the behaviour is undefined and the
\* call may return any word.
FindLargestFreeBlock_cpp(arr, count) ==
    IF Wrap(count - 1) > MAX_RECORDS - 1
    THEN 0..(WordMod - 1)
    ELSE {GapLoop(arr, count, 0, 0)}

----------------------------------------------------------------------------
(* The registry as its callers see it *)

\* a full scan: from RecordsHead following next, or Records[0..RecordCount-1]
CurScan ==
    IF build = "hpp" THEN Scan(Reg) ELSE Scan_cpp(Records, RecordCount)

Present(p) == \E i \in 1..Len(CurScan) : CurScan[i].ptr = p

----------------------------------------------------------------------------
(* History of the calls made, kept beside the program state *)

NoCalls == [n |-> 0, sum |-> 0, stored |-> 0]

ScenAddrs == {100, 200, 300}
ScenOff == [ins |-> {}, stage |-> "off"]

\* the scenario: from the empty registry, records of size 10 stored at 100, 200
\* and 300 in any order, then CfreeTrack(200), then CfreeTrack(200) again
ScenAfterMalloc(p, sz, stored) ==
    IF scen.stage = "insert" /\ stored /\ sz = 10 /\ p \in ScenAddrs \ scen.ins
    THEN [scen EXCEPT !.ins = @ \cup {p}]
    ELSE ScenOff

ScenAfterFree(p) ==
    IF scen.stage = "insert" /\ scen.ins = ScenAddrs /\ p = 200
    THEN [scen EXCEPT !.stage = "removed"]
    ELSE IF scen.stage = "removed" /\ p = 200
    THEN [scen EXCEPT !.stage = "again"]
    ELSE ScenOff

\* The shadow registry.  state is "unused" (Spec, SpecThreads: nothing is
\* followed), "idle", "on" (a pair on address a is open: the other fields hold
\* the registry as it would be had CmallocTrack(a) not been called) or "closed"
\* (CfreeTrack(a) has just closed the pair).  between: some call on another
\* address came between the two; skipped: one of those stored nothing.
ShadowBlank ==
    [state |-> "idle", a |-> NULL, between |-> FALSE, skipped |-> FALSE,
     heap |-> [n \in NodeIds |-> FreeNode], head |-> NULL, tail |-> NULL,
     Records |-> [i \in Slots |-> ZeroRecord], RecordCount |-> 0]

ShadowUnused == [ShadowBlank EXCEPT !.state = "unused"]

ShadowReg == [heap |-> shadow.heap, head |-> shadow.head, tail |-> shadow.tail]

\* the shadow's std::malloc of a node succeeds exactly when the registry's did
ShadowNode(stored) ==
    IF stored THEN CHOOSE n \in MallocRecord(shadow.heap) : n # NULL ELSE NULL

\* the values shadow may take after CmallocTrack(p, sz)
ShadowAfterMalloc(p, sz, stored) ==
    IF shadow.state = "unused" THEN {shadow}
    ELSE IF shadow.state = "on" /\ p # shadow.a
    THEN LET r == CmallocTrack(ShadowReg, ShadowNode(stored), p, sz)
             c == CmallocTrack_cpp(shadow.Records, shadow.RecordCount, p, sz)
         IN  {IF build = "hpp"
              THEN [shadow EXCEPT !.heap = r.heap, !.head = r.head,
                                  !.tail = r.tail, !.between = TRUE,
                                  !.skipped = @ \/ ~stored]
              ELSE [shadow EXCEPT !.Records = c.Records,
                                  !.RecordCount = c.RecordCount,
                                  !.between = TRUE,
                                  !.skipped = @ \/ ~stored]}
    ELSE IF shadow.state = "on" THEN {ShadowBlank}
    ELSE {ShadowBlank,
          [ShadowBlank EXCEPT !.state = "on", !.a = p,
                              !.heap = heap, !.head = RecordsHead,
                              !.tail = RecordsTail, !.Records = Records,
                              !.RecordCount = RecordCount]}

\* the value of shadow after CfreeTrack(p)
ShadowAfterFree(p) ==
    IF shadow.state = "unused" THEN shadow
    ELSE IF shadow.state = "on" /\ p # shadow.a
    THEN LET r == CfreeTrack(ShadowReg, p)
             c == CfreeTrack_cpp(shadow.Records, shadow.RecordCount, p)
         IN  IF build = "hpp"
             THEN [shadow EXCEPT !.heap = r.heap, !.head = r.head,
                                 !.tail = r.tail, !.between = TRUE]
             ELSE [shadow EXCEPT !.Records = c.Records,
                                 !.RecordCount = c.RecordCount,
                                 !.between = TRUE]
    ELSE IF shadow.state = "on"
    THEN [ShadowBlank EXCEPT !.state = "closed", !.a = p,
                             !.between = shadow.between,
                             !.skipped = shadow.skipped]
    ELSE ShadowBlank

\* after CmallocTrack(p, sz); stored says whether it stored a record
NoteMalloc(p, sz, stored) ==
    /\ stored \/ nSkipped < MaxSkipped
    /\ shadow' \in ShadowAfterMalloc(p, sz, stored)
    /\ sent' = [sent EXCEPT ![p] =
                  [n |-> IF stored THEN @.n + 1 ELSE @.n,
                   sum |-> @.sum + sz,
                   stored |-> IF stored THEN @.stored + sz ELSE @.stored]]
    /\ nSkipped' = IF stored THEN nSkipped ELSE nSkipped + 1
    /\ scen' = ScenAfterMalloc(p, sz, stored)

\* after CfreeTrack(p)
NoteFree(p) ==
    /\ sent' = [sent EXCEPT ![p] =
                  [n |-> IF @.n > 0 THEN @.n - 1 ELSE 0, sum |-> 0, stored |-> 0]]
    /\ nSkipped' = nSkipped
    /\ scen' = ScenAfterFree(p)
    /\ shadow' = ShadowAfterFree(p)

----------------------------------------------------------------------------
(* Spec: one caller invoking CmallocTrack and CfreeTrack directly.  The     *)
(* caller keeps the precondition of CmallocTrack: the address it passes is *)
(* not in the registry at that moment (the allocator never hands out a     *)
(* block that is still live).                                              *)

InitThreads ==
    /\ mutex_ = NoThread
    /\ lock_tracker = [t \in Threads |-> FALSE]
    /\ pc = [t \in Threads |-> "idle"]
    /\ ptr = [t \in Threads |-> NULL]
    /\ size = [t \in Threads |-> 0]
    /\ live = {}
    /\ owned = {}
    /\ node = [t \in Threads |-> NULL]
    /\ outer = [t \in Threads |-> NoFrame]
    /\ nReentered = 0
    /\ tracked = [a \in HeapAddrs |-> Untracked]
    /\ scenT = [on |-> TRUE, called |-> {}]

InitRegistry ==
    /\ heap = [n \in NodeIds |-> FreeNode]
    /\ RecordsHead = NULL
    /\ RecordsTail = NULL
    /\ RecordCount = 0
    /\ Records = [i \in Slots |-> ZeroRecord]

InitHistory ==
    /\ sent = [a \in Addrs |-> NoCalls]
    /\ nSkipped = 0
    /\ scen = [ins |-> {}, stage |-> "insert"]
    /\ shadow = ShadowUnused

Init ==
    /\ build \in {"hpp", "cpp"}
    /\ InitRegistry
    /\ InitThreads
    /\ InitHistory

\* tracker->CmallocTrack(p, sz) in the ctracker.hpp build
CallCmallocTrack(p, sz) ==
    /\ build = "hpp"
    /\ ~Present(p)
    /\ \E newRecord \in MallocRecord(heap) :
          LET r == CmallocTrack(Reg, newRecord, p, sz)
          IN  /\ heap' = r.heap
              /\ RecordsHead' = r.head
              /\ RecordsTail' = r.tail
              /\ NoteMalloc(p, sz, newRecord # NULL)
    /\ UNCHANGED <<build, RecordCount, Records, threadVars>>

\* tracker->CfreeTrack(p) in the ctracker.hpp build
CallCfreeTrack(p) ==
    /\ build = "hpp"
    /\ LET r == CfreeTrack(Reg, p)
       IN  /\ heap' = r.heap
           /\ RecordsHead' = r.head
           /\ RecordsTail' = r.tail
           /\ NoteFree(p)
    /\ UNCHANGED <<build, RecordCount, Records, threadVars>>

\* tracker->CmallocTrack(p, sz) in the ctracker.cpp build
CallCmallocTrack_cpp(p, sz) ==
    /\ build = "cpp"
    /\ ~Present(p)
    /\ LET r == CmallocTrack_cpp(Records, RecordCount, p, sz)
       IN  /\ Records' = r.Records
           /\ RecordCount' = r.RecordCount
           /\ NoteMalloc(p, sz, RecordCount < MAX_RECORDS)
    /\ UNCHANGED <<build, heap, RecordsHead, RecordsTail, threadVars>>

\* tracker->CfreeTrack(p) in the ctracker.cpp build
CallCfreeTrack_cpp(p) ==
    /\ build = "cpp"
    /\ LET r == CfreeTrack_cpp(Records, RecordCount, p)
       IN  /\ Records' = r.Records
           /\ RecordCount' = r.RecordCount
           /\ NoteFree(p)
    /\ UNCHANGED <<build, heap, RecordsHead, RecordsTail, threadVars>>

Next ==
    \/ \E p \in Addrs, sz \in Sizes : CallCmallocTrack(p, sz)
    \/ \E p \in Addrs : CallCfreeTrack(p)
    \/ \E p \in Addrs, sz \in Sizes : CallCmallocTrack_cpp(p, sz)
    \/ \E p \in Addrs : CallCfreeTrack_cpp(p)

Spec == Init /\ [][Next]_vars

----------------------------------------------------------------------------
(* Properties of the registry under Spec *)

RECURSIVE SumOver(_, _)
\* the sum of f[a] over the addresses in S
SumOver(f, S) ==
    IF S = {} THEN 0
    ELSE LET a == CHOOSE x \in S : TRUE
         IN  f[a] + SumOver(f, S \ {a})

\* C1: after any sequence of CmallocTrack and CfreeTrack calls in which each
\* inserted address is not present when it is inserted, a full scan of the
\* registry (either variant) yields strictly ascending addresses.
C1_ScanStrictlyAscending ==
    \A i \in 1..(Len(CurScan) - 1) : CurScan[i].ptr < CurScan[i + 1].ptr

\* three records were stored in some order and the middle one was removed
C1_Witness == scen.stage = "removed" /\ Len(CurScan) = 2

\* C2: in ctracker.hpp the public RecordCount equals the number of records
\* stored. (No statement of ctracker.hpp assigns RecordCount.)
C2_CountEqualsStored ==
    build = "hpp" => RecordCount = Len(CurScan)

\* C3 as claimed: TotalAllocated() is the sum of the sizes of all CmallocTrack
\* calls whose address has not since been passed to CfreeTrack.
C3_TotalOfAllCalls ==
    build = "hpp" =>
        TotalAllocated(Reg) = SumOver([a \in Addrs |-> sent[a].sum], Addrs)

\* C3 amended: TotalAllocated() is the sum, as a size_t, of the sizes of the
\* CmallocTrack calls that stored a record and whose address has not since been
\* passed to CfreeTrack.
C3_TotalOfStoredCalls ==
    build = "hpp" =>
        TotalAllocated(Reg) =
            Wrap(SumOver([a \in Addrs |-> sent[a].stored], Addrs))

\* a call stored nothing and is still outstanding, beside records that count
C3_Witness ==
    /\ build = "hpp"
    /\ TotalAllocated(Reg) > 0
    /\ \E a \in Addrs : sent[a].sum > sent[a].stored

\* C5: CfreeTrack of an address that was never inserted, or whose inserts were
\* all removed again, leaves the record sequence, RecordCount and
\* TotalAllocated() as they were.
C5_FreeUnknownIsNoOp ==
    [][\A a \in Addrs :
          (sent[a].n = 0 /\ CallCfreeTrack(a)) =>
              /\ CurScan' = CurScan
              /\ RecordCount' = RecordCount
              /\ TotalAllocated(Reg)' = TotalAllocated(Reg)]_vars

\* CfreeTrack(200) was called a second time, with 100 and 300 still recorded
C5_Witness ==
    build = "hpp" /\ scen.stage = "again" /\ Len(CurScan) = 2

\* the largest of max(0, next.address - (current.address + current.size)) over
\* the consecutive pairs of s from position i on
RECURSIVE MaxGapFrom(_, _)
MaxGapFrom(s, i) ==
    IF i >= Len(s) THEN 0
    ELSE Max(Max(0, s[i + 1].ptr - (s[i].ptr + s[i].size)), MaxGapFrom(s, i + 1))

\* C6: in both variants FindLargestFreeBlock() returns the largest clamped gap
\* between consecutive records, never a wrapped-around value.
C6_LargestClampedGap ==
    /\ build = "hpp" => FindLargestFreeBlock(Reg) = MaxGapFrom(CurScan, 1)
    /\ build = "cpp" =>
          \A v \in FindLargestFreeBlock_cpp(Records, RecordCount) :
              v = MaxGapFrom(CurScan, 1)

\* C7: with 0 or 1 records FragmentationIndex() is 0.0 and
\* FindLargestFreeBlock() is 0 (ctracker.hpp).
C7_DegenerateMetrics ==
    (build = "hpp" /\ Len(CurScan) <= 1) =>
        /\ FragmentationIndex(Reg) = FZero
        /\ FindLargestFreeBlock(Reg) = 0

\* one record of positive size is left after an earlier record was removed
\* (node 1 was handed out first and is free again)
C7_Witness ==
    /\ build = "hpp"
    /\ Len(CurScan) = 1
    /\ CurScan[1].size > 0
    /\ ~heap[1].used

\* each record ends at or before the start of the next one
NonOverlapping(s) ==
    \A i \in 1..(Len(s) - 1) : s[i].ptr + s[i].size <= s[i + 1].ptr

\* C8: for non-overlapping records FragmentationIndex() returns v with
\* 0.0 <= v < 1.0.
C8_IndexInUnitInterval ==
    (build = "hpp" /\ NonOverlapping(CurScan)) =>
        /\ ~FLess(FragmentationIndex(Reg), FZero)
        /\ FLess(FragmentationIndex(Reg), FOne)

\* C9 as claimed: after (100,10), (200,10), (300,10) in any order the largest
\* free block is 90, and after CfreeTrack(200) it is 200.
C9_GapBecomes200 ==
    build = "hpp" =>
        /\ (scen.stage = "insert" /\ scen.ins = ScenAddrs) =>
              FindLargestFreeBlock(Reg) = 90
        /\ scen.stage = "removed" => FindLargestFreeBlock(Reg) = 200

\* C9 amended: ... and after CfreeTrack(200) it is 190, from 110 to 300.
C9_GapBecomes190 ==
    build = "hpp" =>
        /\ (scen.stage = "insert" /\ scen.ins = ScenAddrs) =>
              FindLargestFreeBlock(Reg) = 90
        /\ scen.stage = "removed" => FindLargestFreeBlock(Reg) = 190

C9_Witness == build = "hpp" /\ scen.stage = "removed"

\* C10: removing a record of positive size that is neither the lowest nor the
\* highest of at least 3 non-overlapping records strictly increases
\* FragmentationIndex().
C10_MiddleFreeIncreasesIndex ==
    [][\A a \in Addrs :
          ( /\ build = "hpp"
            /\ Len(CurScan) >= 3
            /\ NonOverlapping(CurScan)
            /\ \E i \in 2..(Len(CurScan) - 1) :
                  CurScan[i].ptr = a /\ CurScan[i].size > 0
            /\ CallCfreeTrack(a) ) =>
              FLess(FragmentationIndex(Reg), FragmentationIndex(Reg)')]_vars

\* C11: after CfreeTrack removes a record of size s > 0 that lies between two
\* other records of a non-overlapping registry, FindLargestFreeBlock() returns
\* at least s, so more than 0 (either variant).
C11_MiddleFreeLeavesGap ==
    [][\A i \in 2..(Len(CurScan) - 1) :
          ( /\ NonOverlapping(CurScan)
            /\ CurScan[i].size > 0
            /\ \/ CallCfreeTrack(CurScan[i].ptr)
               \/ CallCfreeTrack_cpp(CurScan[i].ptr) ) =>
              /\ build = "hpp" =>
                    FindLargestFreeBlock(Reg)' >= CurScan[i].size
              /\ build = "cpp" =>
                    \A v \in FindLargestFreeBlock_cpp(Records, RecordCount)' :
                        v >= CurScan[i].size]_vars

\* the record at 200 was removed from between those at 100 and 300
C11_Witness ==
    /\ scen.stage = "removed"
    /\ RecordsHead # NULL
    /\ FindLargestFreeBlock(Reg) = 190

\* the nodes met from node n following next, in order
RECURSIVE ChainFrom(_, _)
ChainFrom(hp, n) ==
    IF n = NULL THEN <<>> ELSE <<n>> \o ChainFrom(hp, hp[n].next)

\* C22: in the linked list of ctracker.hpp, after any sequence of CmallocTrack
\* and CfreeTrack calls, RecordsHead is null if and only if RecordsTail is
\* null; otherwise RecordsTail is the last node reachable from RecordsHead (its
\* next is null and it holds the highest address), so that RecordsHead ==
\* RecordsTail exactly when the list has one record.
C22_TailIsLastNode ==
    build = "hpp" =>
        LET chain == ChainFrom(heap, RecordsHead)
        IN  /\ (RecordsHead = NULL) <=> (RecordsTail = NULL)
            /\ RecordsHead # NULL =>
                  /\ RecordsTail = chain[Len(chain)]
                  /\ heap[RecordsTail].used
                  /\ heap[RecordsTail].next = NULL
                  /\ \A i \in 1..Len(chain) :
                        heap[chain[i]].ptr <= heap[RecordsTail].ptr
            /\ (RecordsHead # NULL /\ RecordsHead = RecordsTail)
                  <=> Len(chain) = 1

\* the one record left is the node handed out third: the two nodes handed out
\* before it were in the list with it and have been removed, the later of the
\* two as the head or the tail of a list of two
C22_Witness ==
    /\ build = "hpp"
    /\ RecordsHead = NumNodes
    /\ RecordsTail = NumNodes
    /\ \A n \in NodeIds \ {NumNodes} : ~heap[n].used

----------------------------------------------------------------------------
(* SpecPair: the same caller and calls as Spec, with the shadow registry    *)
(* following one CmallocTrack(a) ... CfreeTrack(a) pair at a time.          *)

InitPair ==
    /\ build \in {"hpp", "cpp"}
    /\ InitRegistry
    /\ InitThreads
    /\ sent = [a \in Addrs |-> NoCalls]
    /\ nSkipped = 0
    /\ scen = ScenOff
    /\ shadow = ShadowBlank

SpecPair == InitPair /\ [][Next]_vars

\* the registry as a scan, RecordCount and TotalAllocated()
Observed(bld, reg, arr, count) ==
    IF bld = "hpp"
    THEN [scan |-> Scan(reg), RecordCount |-> count,
          total |-> TotalAllocated(reg)]
    ELSE [scan |-> Scan_cpp(arr, count), RecordCount |-> count,
          total |-> TotalAllocated_cpp(arr, count)]

----------------------------------------------------------------------------
(* SpecThreads: threads calling the replaced operator new and operator     *)
(* delete (the same code in ctracker.hpp and ctracker.cpp) and the metrics. *)
(* Each action is one step of one thread.  CmallocTrack and CfreeTrack run  *)
(* with mutex_ held, in two steps each.  Code that runs on a thread between *)
(* the set and the reset of its lock_tracker may itself call operator new   *)
(* or operator delete: the call in progress is then suspended in outer.     *)

\* std::malloc(size) for a user block: null, or an address that is not live
Malloc(lv) == {NULL} \cup (HeapAddrs \ lv)

\* std::free(ptr) that releases nothing
FreeNothing(lv, p) == lv

\* std::free(ptr) for a user block
Free(lv, p) == lv \ {p}

\* lock_tracker read as one flag shared by all threads
FlagOfAnyThread(lt, t) == \E u \in Threads : lt[u]

\* lock_tracker read as false whatever it holds
FlagIgnored(lt, t) == FALSE

\* the thread_local lock_tracker as thread t reads it
FlagOf(lt, t) == lt[t]

\* a mutex that is never found locked
CanLockAlways(m) == TRUE

\* std::lock_guard<std::mutex> lock(mutex_) goes on once no thread holds mutex_
CanLock(m) == m = NoThread

\* where a thread is between the set and the reset of its lock_tracker with
\* code of its own still to call: printf, the lock_guard, std::malloc
ReentryPoints == {"new_lock", "new_track", "delete_lock", "delete_track"}

\* tracked once the operator call holding address a has done how with it
Noted(a, how, sz) ==
    IF a = NULL THEN tracked
    ELSE [tracked EXCEPT ![a] = [how |-> how, size |-> sz]]

\* thread t can start an operator call: from the program, or as a re-entrant
\* call from code that runs between the set and the reset of its lock_tracker
CanCall(t) ==
    \/ pc[t] = "idle"
    \/ pc[t] \in ReentryPoints /\ outer[t] = NoFrame
                                /\ nReentered < MaxReentered

\* outer and nReentered once thread t has started an operator call: a call in
\* progress is suspended
Suspend(t) ==
    IF pc[t] = "idle" THEN UNCHANGED <<outer, nReentered>>
    ELSE /\ outer' = [outer EXCEPT ![t] =
                         [pc |-> pc[t], ptr |-> ptr[t], size |-> size[t]]]
         /\ nReentered' = nReentered + 1

\* pc, ptr, size and outer once the operator call of thread t has returned: a
\* suspended call goes on
Return(t) ==
    /\ pc' = [pc EXCEPT ![t] =
                 IF outer[t] = NoFrame THEN "idle" ELSE outer[t].pc]
    /\ ptr' = [ptr EXCEPT ![t] = outer[t].ptr]
    /\ size' = [size EXCEPT ![t] = outer[t].size]
    /\ outer' = [outer EXCEPT ![t] = NoFrame]

InitT ==
    /\ build \in {"hpp", "cpp"}
    /\ InitRegistry
    /\ InitThreads
    /\ InitHistory

\* operator new(size) / operator new[](size): void *ptr = std::malloc(size);
OpNew_malloc(t, sz) ==
    /\ CanCall(t)
    /\ Suspend(t)
    /\ \E p \in Malloc(live) :
          /\ ptr' = [ptr EXCEPT ![t] = p]
          /\ live' = IF p = NULL THEN live ELSE live \cup {p}
    /\ size' = [size EXCEPT ![t] = sz]
    /\ pc' = [pc EXCEPT ![t] = "new_test"]
    /\ scenT' = IF scenT.on /\ pc[t] = "idle" /\ t \notin scenT.called
                THEN [scenT EXCEPT !.called = @ \cup {t}]
                ELSE ScenTOff
    /\ UNCHANGED <<build, regVars, mutex_, lock_tracker, owned, node, tracked,
                   histVars>>

\* if (!lock_tracker) { lock_tracker = true; printf(...); ...
OpNew_test(t) ==
    /\ pc[t] = "new_test"
    /\ IF ~FlagOf(lock_tracker, t)
       THEN /\ lock_tracker' = [lock_tracker EXCEPT ![t] = TRUE]
            /\ pc' = [pc EXCEPT ![t] = "new_lock"]
            /\ tracked' = tracked
       ELSE /\ lock_tracker' = lock_tracker
            /\ pc' = [pc EXCEPT ![t] = "new_return"]
            /\ tracked' = Noted(ptr[t], "bypassed", size[t])
    /\ UNCHANGED <<build, regVars, mutex_, ptr, size, live, owned, node, outer, nReentered,
                   scenT, histVars>>

\* CmallocTrack: std::lock_guard<std::mutex> lock(mutex_);
OpNew_lock(t) ==
    /\ pc[t] = "new_lock"
    /\ CanLock(mutex_)
    /\ mutex_' = t
    /\ pc' = [pc EXCEPT ![t] = "new_track"]
    /\ UNCHANGED <<build, regVars, lock_tracker, ptr, size, live, owned, node,
                   outer, nReentered, tracked, scenT, histVars>>

\* CmallocTrack, first step: is there storage for the record?  ctracker.hpp:
\* the std::malloc of newRecord and, if it is not null, the stores into it;
\* ctracker.cpp: RecordCount < MAX_RECORDS.  Without storage CmallocTrack
\* returns, releasing mutex_.
OpNew_track(t) ==
    /\ pc[t] = "new_track"
    /\ \/ /\ build = "hpp"
          /\ \E newRecord \in MallocRecord(heap) \ {NULL} :
                /\ heap' = [heap EXCEPT ![newRecord] =
                              [used |-> TRUE, ptr |-> ptr[t],
                               size |-> size[t], next |-> NULL]]
                /\ node' = [node EXCEPT ![t] = newRecord]
          /\ pc' = [pc EXCEPT ![t] = "new_splice"]
          /\ UNCHANGED <<mutex_, tracked>>
       \/ /\ build = "cpp"
          /\ HasRoom(RecordCount)
          /\ pc' = [pc EXCEPT ![t] = "new_splice"]
          /\ UNCHANGED <<heap, node, mutex_, tracked>>
       \/ /\ build = "hpp" \/ ~HasRoom(RecordCount)
          /\ mutex_' = IF mutex_ = t THEN NoThread ELSE mutex_
          /\ pc' = [pc EXCEPT ![t] = "new_reset"]
          /\ tracked' = Noted(ptr[t], "skipped", size[t])
          /\ UNCHANGED <<heap, node>>
    /\ UNCHANGED <<build, RecordsHead, RecordsTail, RecordCount, Records,
                   lock_tracker, ptr, size, live, owned, outer, nReentered, scenT,
                   histVars>>

\* CmallocTrack, second step: the record is put in its place, and CmallocTrack
\* returns, releasing mutex_
OpNew_splice(t) ==
    /\ pc[t] = "new_splice"
    /\ \/ /\ build = "hpp"
          /\ LET r == CmallocTrack(Reg, node[t], ptr[t], size[t])
             IN  /\ heap' = r.heap
                 /\ RecordsHead' = r.head
                 /\ RecordsTail' = r.tail
          /\ UNCHANGED <<Records, RecordCount>>
       \/ /\ build = "cpp"
          /\ LET r == CmallocTrack_cpp(Records, RecordCount, ptr[t], size[t])
             IN  /\ Records' = r.Records
                 /\ RecordCount' = r.RecordCount
          /\ UNCHANGED <<heap, RecordsHead, RecordsTail>>
    /\ node' = [node EXCEPT ![t] = NULL]
    /\ mutex_' = IF mutex_ = t THEN NoThread ELSE mutex_
    /\ pc' = [pc EXCEPT ![t] = "new_reset"]
    /\ tracked' = Noted(ptr[t], "stored", size[t])
    /\ UNCHANGED <<build, lock_tracker, ptr, size, live, owned, outer, nReentered, scenT,
                   histVars>>

\* OpNew_reset without the store to lock_tracker
OpNew_resetKeepsFlag(t) ==
    /\ pc[t] = "new_reset"
    /\ pc' = [pc EXCEPT ![t] = "new_return"]
    /\ UNCHANGED <<build, regVars, mutex_, lock_tracker, ptr, size, live, owned,
                   node, outer, nReentered, tracked, scenT, histVars>>

\* lock_tracker = false; }
OpNew_reset(t) ==
    /\ pc[t] = "new_reset"
    /\ lock_tracker' = [lock_tracker EXCEPT ![t] = FALSE]
    /\ pc' = [pc EXCEPT ![t] = "new_return"]
    /\ UNCHANGED <<build, regVars, mutex_, ptr, size, live, owned, node, outer, nReentered,
                   tracked, scenT, histVars>>

\* return ptr;
OpNew_return(t) ==
    /\ pc[t] = "new_return"
    /\ owned' = IF ptr[t] = NULL THEN owned ELSE owned \cup {ptr[t]}
    /\ Return(t)
    /\ UNCHANGED <<build, regVars, mutex_, lock_tracker, live, node, nReentered,
                   tracked, scenT, histVars>>

\* operator delete(p), every overload:
\* if (!ptr) return; if (!lock_tracker) { lock_tracker = true; printf(...); ...
\* The caller passes null or an address operator new returned to the program.
OpDelete_test(t, p) ==
    /\ CanCall(t)
    /\ p \in owned \cup {NULL}
    /\ IF p = NULL
       THEN UNCHANGED <<owned, ptr, lock_tracker, pc, scenT, outer, nReentered>>
       ELSE /\ Suspend(t)
            /\ owned' = owned \ {p}
            /\ ptr' = [ptr EXCEPT ![t] = p]
            /\ scenT' = ScenTOff
            /\ IF ~FlagOf(lock_tracker, t)
               THEN /\ lock_tracker' = [lock_tracker EXCEPT ![t] = TRUE]
                    /\ pc' = [pc EXCEPT ![t] = "delete_lock"]
               ELSE /\ lock_tracker' = lock_tracker
                    /\ pc' = [pc EXCEPT ![t] = "delete_free"]
    /\ UNCHANGED <<build, regVars, mutex_, size, live, node, tracked, histVars>>

\* CfreeTrack: std::lock_guard<std::mutex> lock(mutex_);
OpDelete_lock(t) ==
    /\ pc[t] = "delete_lock"
    /\ CanLock(mutex_)
    /\ mutex_' = t
    /\ pc' = [pc EXCEPT ![t] = "delete_track"]
    /\ UNCHANGED <<build, regVars, lock_tracker, ptr, size, live, owned, node,
                   outer, nReentered, tracked, scenT, histVars>>

\* CfreeTrack, first step: the search for a record holding ptr.  Without one
\* CfreeTrack returns, releasing mutex_.
OpDelete_track(t) ==
    /\ pc[t] = "delete_track"
    /\ IF Present(ptr[t])
       THEN /\ pc' = [pc EXCEPT ![t] = "delete_splice"]
            /\ mutex_' = mutex_
       ELSE /\ pc' = [pc EXCEPT ![t] = "delete_reset"]
            /\ mutex_' = IF mutex_ = t THEN NoThread ELSE mutex_
    /\ UNCHANGED <<build, regVars, lock_tracker, ptr, size, live, owned, node,
                   outer, nReentered, tracked, scenT, histVars>>

\* CfreeTrack, second step: the record is taken out, and CfreeTrack returns,
\* releasing mutex_
OpDelete_splice(t) ==
    /\ pc[t] = "delete_splice"
    /\ \/ /\ build = "hpp"
          /\ LET r == CfreeTrack(Reg, ptr[t])
             IN  /\ heap' = r.heap
                 /\ RecordsHead' = r.head
                 /\ RecordsTail' = r.tail
          /\ UNCHANGED <<Records, RecordCount>>
       \/ /\ build = "cpp"
          /\ LET r == CfreeTrack_cpp(Records, RecordCount, ptr[t])
             IN  /\ Records' = r.Records
                 /\ RecordCount' = r.RecordCount
          /\ UNCHANGED <<heap, RecordsHead, RecordsTail>>
    /\ mutex_' = IF mutex_ = t THEN NoThread ELSE mutex_
    /\ pc' = [pc EXCEPT ![t] = "delete_reset"]
    /\ UNCHANGED <<build, lock_tracker, ptr, size, live, owned, node, outer, nReentered,
                   tracked, scenT, histVars>>

\* lock_tracker = false; }
OpDelete_reset(t) ==
    /\ pc[t] = "delete_reset"
    /\ lock_tracker' = [lock_tracker EXCEPT ![t] = FALSE]
    /\ pc' = [pc EXCEPT ![t] = "delete_free"]
    /\ UNCHANGED <<build, regVars, mutex_, ptr, size, live, owned, node, outer, nReentered,
                   tracked, scenT, histVars>>

\* std::free(ptr);
OpDelete_free(t) ==
    /\ pc[t] = "delete_free"
    /\ live' = Free(live, ptr[t])
    /\ tracked' = Noted(ptr[t], "none", 0)
    /\ Return(t)
    /\ UNCHANGED <<build, regVars, mutex_, lock_tracker, owned, node,
                   nReentered, scenT, histVars>>

\* a call of TotalAllocated(), FragmentationIndex() or FindLargestFreeBlock()
Metric_call(t) ==
    /\ pc[t] = "idle"
    /\ pc' = [pc EXCEPT ![t] = "metric_lock"]
    /\ UNCHANGED <<build, regVars, mutex_, lock_tracker, ptr, size, live, owned,
                   node, outer, nReentered, tracked, scenT, histVars>>

\* std::lock_guard<std::mutex> lock(mutex_);
Metric_lock(t) ==
    /\ pc[t] = "metric_lock"
    /\ CanLock(mutex_)
    /\ mutex_' = t
    /\ pc' = [pc EXCEPT ![t] = "metric_scan"]
    /\ UNCHANGED <<build, regVars, lock_tracker, ptr, size, live, owned, node,
                   outer, nReentered, tracked, scenT, histVars>>

\* Metric_scan that returns without releasing mutex_
Metric_scanKeepsMutex(t) ==
    /\ pc[t] = "metric_scan"
    /\ pc' = [pc EXCEPT ![t] = "idle"]
    /\ UNCHANGED <<build, regVars, mutex_, lock_tracker, ptr, size, live, owned,
                   node, outer, nReentered, tracked, scenT, histVars>>

\* the scan of the records and the return, releasing mutex_
Metric_scan(t) ==
    /\ pc[t] = "metric_scan"
    /\ mutex_' = IF mutex_ = t THEN NoThread ELSE mutex_
    /\ pc' = [pc EXCEPT ![t] = "idle"]
    /\ UNCHANGED <<build, regVars, lock_tracker, ptr, size, live, owned, node,
                   outer, nReentered, tracked, scenT, histVars>>

NextT ==
    \E t \in Threads :
        \/ \E sz \in NewSizes : OpNew_malloc(t, sz)
        \/ OpNew_test(t)
        \/ OpNew_lock(t)
        \/ OpNew_track(t)
        \/ OpNew_splice(t)
        \/ OpNew_reset(t)
        \/ OpNew_return(t)
        \/ \E p \in HeapAddrs \cup {NULL} : OpDelete_test(t, p)
        \/ OpDelete_lock(t)
        \/ OpDelete_track(t)
        \/ OpDelete_splice(t)
        \/ OpDelete_reset(t)
        \/ OpDelete_free(t)
        \/ Metric_call(t)
        \/ Metric_lock(t)
        \/ Metric_scan(t)

SpecThreads == InitT /\ [][NextT]_vars

\* thread t takes mutex_
Acquire(t) == OpNew_lock(t) \/ OpDelete_lock(t) \/ Metric_lock(t)

\* a step of thread t inside a call it has started
Progress(t) ==
    \/ OpNew_test(t) \/ OpNew_track(t) \/ OpNew_splice(t)
    \/ OpNew_reset(t) \/ OpNew_return(t)
    \/ OpDelete_track(t) \/ OpDelete_splice(t)
    \/ OpDelete_reset(t) \/ OpDelete_free(t)
    \/ Metric_scan(t)
    \/ Acquire(t)

\* SpecThreadsFair: every thread that can go on inside a call does so in the
\* end (weak fairness of each thread).  std::mutex promises no order among the
\* threads waiting for it, so nothing stronger is assumed of Acquire.
SpecThreadsFair == SpecThreads /\ \A t \in Threads : WF_vars(Progress(t))

----------------------------------------------------------------------------
(* Properties under SpecThreads *)

\* C4: in every reachable state of any interleaving of operator new and
\* operator delete, no address appears in the registry more than once.
C4_AddressAtMostOnce ==
    \A i, j \in 1..Len(CurScan) :
        i # j => CurScan[i].ptr # CurScan[j].ptr

\* thread t is inside operator new, up to its return
NewPcs ==
    {"new_test", "new_lock", "new_track", "new_splice", "new_reset",
     "new_return"}

\* thread t is between the set and the reset of lock_tracker
TrackingPcs ==
    {"new_lock", "new_track", "new_splice", "new_reset",
     "delete_lock", "delete_track", "delete_splice", "delete_reset"}

\* thread t is inside the body of CmallocTrack, CfreeTrack or a metric
BodyPcs ==
    {"new_track", "new_splice", "delete_track", "delete_splice", "metric_scan"}

\* C13: an operator new / operator new[] call made while the thread's
\* lock_tracker is already true obtains its block from std::malloc, goes
\* straight to its return without CmallocTrack, leaves the registry and the
\* flag as they are, and, as in the other branch, returns the address
\* std::malloc produced.
C13_ReentrantNewBypasses ==
    [][\A t \in Threads :
          /\ (lock_tracker[t] /\ \E sz \in NewSizes : OpNew_malloc(t, sz)) =>
                /\ ptr'[t] \in Malloc(live)
                /\ pc'[t] = "new_test"
                /\ UNCHANGED <<regVars, lock_tracker>>
          /\ (lock_tracker[t] /\ OpNew_test(t)) =>
                /\ pc'[t] = "new_return"
                /\ UNCHANGED <<regVars, lock_tracker, ptr>>
          /\ (pc[t] \in NewPcs /\ pc'[t] \in NewPcs /\ outer'[t] = outer[t]) =>
                ptr'[t] = ptr[t]
          /\ OpNew_return(t) =>
                /\ owned' = owned \cup ({ptr[t]} \ {NULL})
                /\ UNCHANGED <<regVars, lock_tracker>>]_vars

\* a re-entrant operator new returned a block, and no record was made of it
C13_Witness ==
    \E p \in owned : tracked[p].how = "bypassed" /\ ~Present(p)

\* C14: lock_tracker of a thread is true exactly while the thread is between
\* the set and the reset inside an operator new / operator delete call (so it
\* is false whenever such a call has returned, whatever its exit path), and a
\* call entered with the flag already true never enters CmallocTrack or
\* CfreeTrack.
C14_FlagLifecycle ==
    \A t \in Threads :
        /\ lock_tracker[t] <=> (pc[t] \in TrackingPcs \/ outer[t] # NoFrame)
        /\ outer[t] # NoFrame =>
              pc[t] \notin TrackingPcs /\ outer[t].pc \in TrackingPcs

\* all calls have returned, one of them an operator new whose CmallocTrack
\* stored nothing
C14_Witness ==
    /\ \A t \in Threads : pc[t] = "idle" /\ ~lock_tracker[t]
    /\ \E p \in owned : tracked[p].how = "skipped"

\* C15: while another thread's lock_tracker is true, an operator new or
\* operator delete call of a thread whose own flag is false goes on to
\* CmallocTrack / CfreeTrack, whose second step stores or removes its record.
C15_FlagIsPerThread ==
    [][\A t \in Threads :
          /\ (~lock_tracker[t] /\ \E u \in Threads \ {t} : lock_tracker[u]) =>
                /\ OpNew_test(t) => pc'[t] = "new_lock"
                /\ (\E p \in HeapAddrs : OpDelete_test(t, p)) =>
                      pc'[t] = "delete_lock"
          /\ OpNew_splice(t) =>
                \E i \in 1..Len(CurScan') :
                    CurScan'[i] = [ptr |-> ptr[t], size |-> size[t]]
          /\ OpDelete_splice(t) => Len(CurScan') = Len(CurScan) - 1]_vars

\* two threads are between set and reset at once, one about to remove a record
\* and the other about to enter CmallocTrack
C15_Witness ==
    \E t, u \in Threads :
        /\ t # u
        /\ lock_tracker[t] /\ lock_tracker[u]
        /\ pc[t] = "delete_splice" /\ pc[u] = "new_lock"

\* thread t holds a suspended or running call that is inside a body
InBody(t) == pc[t] \in BodyPcs \/ outer[t].pc \in BodyPcs

\* C16: at most one thread at a time is inside the body of CmallocTrack,
\* CfreeTrack or a metric, that thread being the one that holds mutex_; so a
\* metric scans the records only when no insert or remove is under way.
C16_OneThreadInBody ==
    /\ Cardinality({t \in Threads : InBody(t)}) <= 1
    /\ \A t \in Threads : InBody(t) <=> mutex_ = t
    /\ \A t, u \in Threads :
          pc[t] = "metric_scan" =>
              /\ pc[u] \notin {"new_splice", "delete_splice"}
              /\ outer[u].pc \notin {"new_track", "delete_track"}

\* a metric is scanning the records while another thread, inside operator
\* new, waits for mutex_
C16_Witness ==
    \E t, u \in Threads :
        pc[t] = "metric_scan" /\ pc[u] = "new_lock" /\ Len(CurScan) >= 1

\* the addresses an operator new has handled and no operator delete released
Handled == {a \in DOMAIN tracked : tracked[a].how # "none"}

\* from the empty registry two threads have each called operator new once, the
\* two calls got distinct blocks, went to CmallocTrack and have returned, and
\* no other operator call was made
TwoAllocationsDone ==
    /\ scenT.on
    /\ Cardinality(scenT.called) = 2
    /\ \A t \in scenT.called : pc[t] = "idle"
    /\ Cardinality(Handled) = 2

\* the record CmallocTrack was given for address a is in the scan
RecordOf(a) ==
    \E i \in 1..Len(CurScan) :
        CurScan[i] = [ptr |-> a, size |-> tracked[a].size]

C18_SkipOnExhaustion ==
    /\ [](RecordCount <= MAX_RECORDS)
    /\ [](\A t \in Threads :
            (pc[t] = "new_return" /\ outer[t] = NoFrame) => ~lock_tracker[t])
    /\ [][\A t \in Threads :
            /\ (OpNew_track(t) /\ pc'[t] # "new_splice") =>
                  /\ UNCHANGED regVars
                  /\ pc'[t] = "new_reset" /\ ptr'[t] = ptr[t]
            /\ (OpNew_splice(t) /\ build = "cpp") =>
                  RecordCount < MAX_RECORDS
            /\ OpNew_reset(t) => pc'[t] = "new_return" /\ ptr'[t] = ptr[t]
            /\ OpNew_return(t) => owned' = owned \cup ({ptr[t]} \ {NULL})]_vars

\* the array is full and an operator new whose record was not stored has
\* returned its block
C18_Witness ==
    /\ build = "cpp"
    /\ RecordCount = MAX_RECORDS
    /\ \E p \in owned : tracked[p].how = "skipped" /\ ~Present(p)

\* the user blocks some operator call holds in its local ptr
InFlight ==
    ({ptr[t] : t \in Threads} \cup {outer[t].ptr : t \in Threads}) \ {NULL}

\* C19: operator delete calls std::free on its argument exactly once if the
\* argument is not null (the blocks that are live are those the program owns
\* and those an operator call still holds, whatever the flag and the registry
\* say), and for a null argument it returns with nothing changed.
C19_FreeOnceIffNonNull ==
    /\ [](live = owned \cup InFlight /\ owned \cap InFlight = {})
    /\ [][\A t \in Threads :
            /\ OpDelete_test(t, NULL) => UNCHANGED vars
            /\ OpDelete_free(t) =>
                  ptr[t] # NULL /\ live' = live \ {ptr[t]}
            /\ (live' # live /\ live' \subseteq live) =>
                  \E u \in Threads : OpDelete_free(u)]_vars

\* an operator delete entered with the flag set has released a block whose
\* record is still in the registry
C19_Witness ==
    \E p \in HeapAddrs : Present(p) /\ p \notin live

\* C21: in every reachable state of any interleaving of operator new and
\* operator delete calls, std::malloc being free to return null, every record
\* in the registry has a non-null address that std::malloc has handed out and
\* that has not yet been given to std::free.
C21_RecordsAreLive ==
    \A i \in 1..Len(CurScan) :
        CurScan[i].ptr # NULL /\ CurScan[i].ptr \in live

----------------------------------------------------------------------------
(* Properties under SpecThreadsFair *)

\* thread t is waiting for mutex_
Waiting(t) == pc[t] \in {"new_lock", "delete_lock", "metric_lock"}

\* no thread waits for mutex_ while holding it, and while some thread is
\* inside a call some thread can take a step
NoSelfLockNoDeadlock ==
    /\ \A t \in Threads : Waiting(t) => mutex_ # t
    /\ (\E t \in Threads : pc[t] # "idle") =>
          \E t \in Threads : ENABLED Progress(t)

\* every call a thread is in returns: the thread is outside any call again and
\* again (a suspended call has pc[t] off "idle" until it has itself returned)
EveryCallReturns ==
    \A t \in Threads : []<>(pc[t] = "idle" /\ outer[t] = NoFrame)

====
